---- MODULE Spec2Model ----
(***************************************************************************)
(* Cache persistence bridge of the Figma plugin UI:                        *)
(*   - the Channel Persistor  (src/ui/utils/figmaStoragePersistor.ts)      *)
(*   - the Cache Gate         (src/ui/ConvexProvider.svelte, onMount)      *)
(*   - the Storage Responder  (setupClientStorage, host side)              *)
(* together with the two message channels between UI and host, the UI      *)
(* event loop (message events, timers, promise continuations) and the      *)
(* host's asynchronous clientStorage.                                      *)
(***************************************************************************)
EXTENDS Integers, Sequences, FiniteSets, TLC

(***************************************************************************)
(* Bounds of the model.                                                    *)
(***************************************************************************)
MaxQueue == 2      \* capacity of each channel and of the host's pending operations
MaxCalls == 2      \* restoreClient() calls that one UI instance can have issued
MaxSends == 3      \* messages posted to the host in the Responder scenario
MaxForeign == 1    \* other 'message' events dispatched in a scenario
MaxEntries == 2    \* entries of a snapshot in the hydration scenario
MaxChanges == 1    \* changes of the live data that one useClientCache instance sees
TickMs == 250      \* granularity of the clock that drives the setTimeout timers
MaxTodoCalls == 2  \* calls of addTodo, toggleTodo and deleteTodo in the todo application
MaxText == 2       \* characters of the text in the input field

(***************************************************************************)
(* Program constants.                                                      *)
(***************************************************************************)
CACHE_KEY == "tanstack_query_cache"
TIMEOUT_MS == 500
\* The key of another user of the Responder (the useClientCache hook).
TODOS_CACHE == "todos_cache"

\* Fallback delays of the useClientCache variants that start a timer.
HOOK_TIMEOUT_MS == 200
GETTER_TIMEOUT_MS == 500

CallIds == 1 .. MaxCalls
GateCall == 1
Keys == {CACHE_KEY, TODOS_CACHE}

(***************************************************************************)
(* Values travelling through the channel and kept in the Storage Slot.     *)
(* A value is a record with a kind:                                        *)
(*   undefined   a slot never written / the empty result of restoreClient  *)
(*   null        the value written by removeClient                         *)
(*   scalar      a truthy value that has no clientState                    *)
(*   badQueries  a truthy value whose clientState.queries is truthy but    *)
(*               not an array                                              *)
(*   client      a PersistedClient; queries is clientState.queries         *)
(* An entry of queries has a shape: ok (queryKey and state present),       *)
(* noKey, noState, or null (the entry itself is null).                     *)
(***************************************************************************)
QueryKeys == {"todos", "user"}
KeyOrder == <<"todos", "user">>
Data == {"d1", "d2"}
NoData == "none"

Undefined == [kind |-> "undefined", queries |-> <<>>]
Null == [kind |-> "null", queries |-> <<>>]
Scalar == [kind |-> "scalar", queries |-> <<>>]
BadQueries == [kind |-> "badQueries", queries |-> <<>>]
Client(qs) == [kind |-> "client", queries |-> qs]

Query(k, d, m) == [shape |-> "ok", queryKey |-> k, data |-> d, meta |-> m]
NoKeyQuery(d) == [shape |-> "noKey", queryKey |-> "none", data |-> d, meta |-> 0]
NoStateQuery(k) == [shape |-> "noState", queryKey |-> k, data |-> NoData, meta |-> 0]
NullQuery == [shape |-> "null", queryKey |-> "none", data |-> NoData, meta |-> 0]

\* Snapshots that a previous UI lifetime (or anything else) may have left in the slot.
Snapshots ==
    { Client(<<>>),
      Client(<<Query("todos", "d1", 0)>>),
      Client(<<Query("user", "d2", 0), Query("todos", "d1", 0)>>),
      Client(<<NoKeyQuery("d2"), Query("todos", "d2", 0), NoStateQuery("user")>>),
      Client(<<Query("todos", "d1", 0), NullQuery, Query("user", "d1", 0)>> ) }

StoredValues == {Undefined, Null, Scalar, BadQueries} \cup Snapshots

\* JavaScript truthiness of a value: null and undefined are falsy.
Truthy(v) == v.kind \notin {"undefined", "null"}

\* Variant: `msg.value` without `|| undefined`.
OrUndefinedIdentity(v) == v
\* `msg.value || undefined`
OrUndefined(v) == IF Truthy(v) THEN v ELSE Undefined

Min(a, b) == IF a < b THEN a ELSE b

RemoveAt(s, i) == [j \in 1 .. (Len(s) - 1) |-> IF j < i THEN s[j] ELSE s[j + 1]]

(***************************************************************************)
(* Messages.                                                               *)
(***************************************************************************)
GetStorage(k) == [type |-> "get-storage", key |-> k, value |-> Undefined]
SetStorage(k, v) == [type |-> "set-storage", key |-> k, value |-> v]
StorageData(k, v) == [type |-> "storage-data", key |-> k, value |-> v]
\* A message of the plugin that is not a storage message.
CustomMessage == [type |-> "my-custom-message", key |-> CACHE_KEY, value |-> Undefined]

\* A 'message' event whose data has no pluginMessage.
NoPluginMessage == [type |-> "none", key |-> "none", value |-> Undefined]

\* Handler calls of the todo application and the text of its input field: a text
\* is a sequence of characters, " " for white space and "a" for any other one.
TodoCalls == 1 .. MaxTodoCalls
Chars == {" ", "a"}
Texts == UNION {[1 .. n -> Chars] : n \in 0 .. MaxText}
TodoIds == {"t1", "t2"}

(***************************************************************************)
(* State.                                                                  *)
(***************************************************************************)
VARIABLES
    listeners,    \* restoreClient calls whose handleMessage is a registered 'message' listener
    promise,      \* per call: the promise returned by restoreClient
    timer,        \* per call: the setTimeout timer: "none", "armed", "fired"
    elapsed,      \* per call: milliseconds since the timer was armed (capped at TIMEOUT_MS)
    handled,      \* per call: how often the matching branch of handleMessage ran (capped at 2)
    resumed,      \* per call: how often the awaiting caller was resumed
    sendThrew,    \* per call: parent.postMessage threw inside restoreClient
    log,          \* the Persistor's console.error lines written so far
    lastCall,     \* the last persistClient / removeClient call and how it ended
    toHost,       \* messages posted by the UI, not yet received by the host
    toUI,         \* messages posted by the host, not yet dispatched in the UI
    hostPending,  \* messages whose handler awaits figma.clientStorage
    slot,         \* figma.clientStorage
    gate,         \* position of the Gate's onMount: cold, restoring, live, failed, off
    ready,        \* the Readiness Flag
    cache,        \* the live query cache: query key -> data
    registered,   \* number of persistQueryClient registrations
    dirty,        \* the cache changed since the last automatic persist
    rt,           \* the persist-then-restore scenario: its script, position and observations
    hook,         \* the state of a useClientCache instance and of its component
    app           \* the todo application (App.svelte): todoText and its handler calls

vars == <<listeners, promise, timer, elapsed, handled, resumed, sendThrew, log, lastCall,
          toHost, toUI, hostPending, slot, gate, ready, cache, registered, dirty, rt, hook, app>>

uiVars == <<listeners, promise, timer, elapsed, handled, sendThrew>>
gateVars == <<gate, ready, cache, registered, dirty>>
hostVars == <<hostPending, slot>>

NoPromise == [state |-> "none", value |-> Undefined, by |-> "none"]
Pending == [state |-> "pending", value |-> Undefined, by |-> "none"]
Rejected == [state |-> "rejected", value |-> Undefined, by |-> "throw"]

Settled(c) == promise[c].state \in {"fulfilled", "rejected"}
Fulfilled(c) == promise[c].state = "fulfilled"

\* A settled promise whose continuation has not run yet: the continuation is a
\* microtask and runs before the event loop takes the next message or timer.
MicrotaskPending == \E c \in CallIds : Settled(c) /\ resumed[c] = 0

EmptyCache == [k \in QueryKeys |-> NoData]

(***************************************************************************)
(* Channel Persistor.                                                      *)
(***************************************************************************)

\* Variant: a promise that takes the value of every resolve() call.
resolveOverwrite(p, v, how) == [state |-> "fulfilled", value |-> v, by |-> how]
\* resolve(v) of the promise created in restoreClient: only the first call settles it.
resolve(p, v, how) ==
    IF p.state = "pending" THEN [state |-> "fulfilled", value |-> v, by |-> how] ELSE p

\* Variant: persistClient without its try/catch.
persistClientNoCatch(client, throws) ==
    /\ toHost' = IF throws THEN toHost ELSE Append(toHost, SetStorage(CACHE_KEY, client))
    /\ log' = log
    /\ lastCall' = [op |-> "persistClient", threw |-> throws,
                    outcome |-> IF throws THEN "rejected" ELSE "resolved"]
\* persistClient(client); throws: parent.postMessage throws synchronously.
persistClient(client, throws) ==
    /\ toHost' = IF throws THEN toHost ELSE Append(toHost, SetStorage(CACHE_KEY, client))
    /\ log' = IF throws THEN log \cup {"persistClient"} ELSE log
    /\ lastCall' = [op |-> "persistClient", threw |-> throws, outcome |-> "resolved"]

\* Variant: removeClient that posts the message without a value.
removeClientNoValue(throws) ==
    /\ toHost' = IF throws THEN toHost ELSE Append(toHost, SetStorage(CACHE_KEY, Undefined))
    /\ log' = IF throws THEN log \cup {"removeClient"} ELSE log
    /\ lastCall' = [op |-> "removeClient", threw |-> throws, outcome |-> "resolved"]
\* removeClient()
removeClient(throws) ==
    /\ toHost' = IF throws THEN toHost ELSE Append(toHost, SetStorage(CACHE_KEY, Null))
    /\ log' = IF throws THEN log \cup {"removeClient"} ELSE log
    /\ lastCall' = [op |-> "removeClient", threw |-> throws, outcome |-> "resolved"]

\* Variant: restoreClient that does not register its listener.
restoreClientNoListener(c, throws) ==
    /\ promise[c].state = "none"
    /\ listeners' = listeners
    /\ sendThrew' = [sendThrew EXCEPT ![c] = throws]
    /\ IF throws
         THEN /\ promise' = [promise EXCEPT ![c] = Rejected]
              /\ UNCHANGED <<toHost, timer, elapsed>>
         ELSE /\ promise' = [promise EXCEPT ![c] = Pending]
              /\ toHost' = Append(toHost, GetStorage(CACHE_KEY))
              /\ timer' = [timer EXCEPT ![c] = "armed"]
              /\ elapsed' = [elapsed EXCEPT ![c] = 0]
    /\ UNCHANGED <<handled, log>>
\* restoreClient(), up to the return of the promise.  The executor registers the
\* listener, posts get-storage and arms the timer.  When postMessage throws, the
\* executor is left before setTimeout; the Promise constructor turns the exception
\* into a rejection, and `return new Promise(...)` without await hands that rejected
\* promise to the caller: the catch block of restoreClient is not entered.
restoreClient(c, throws) ==
    /\ promise[c].state = "none"
    /\ listeners' = listeners \cup {c}
    /\ sendThrew' = [sendThrew EXCEPT ![c] = throws]
    /\ IF throws
         THEN /\ promise' = [promise EXCEPT ![c] = Rejected]
              /\ UNCHANGED <<toHost, timer, elapsed>>
         ELSE /\ promise' = [promise EXCEPT ![c] = Pending]
              /\ toHost' = Append(toHost, GetStorage(CACHE_KEY))
              /\ timer' = [timer EXCEPT ![c] = "armed"]
              /\ elapsed' = [elapsed EXCEPT ![c] = 0]
    /\ UNCHANGED <<handled, log>>

\* Variant: a condition that does not compare the key.
MatchesAnyKey(msg) == msg.type = "storage-data"
\* The condition of handleMessage.
Matches(msg) == msg.type = "storage-data" /\ msg.key = CACHE_KEY

\* Variant: handleMessage without removeEventListener.
handleMessageKeepListener(hit, msg) ==
    /\ listeners' = listeners
    /\ promise' = [c \in CallIds |->
                     IF c \in hit THEN resolve(promise[c], OrUndefined(msg.value), "reply")
                                  ELSE promise[c]]
    /\ handled' = [c \in CallIds |-> IF c \in hit THEN Min(handled[c] + 1, 2) ELSE handled[c]]
\* Variant: only the oldest of the registered calls takes the message.
handleMessageFirstOnly(hit, msg) ==
    LET first == {c \in hit : \A d \in hit : c <= d}
    IN  /\ listeners' = listeners \ first
        /\ promise' = [c \in CallIds |->
                         IF c \in first THEN resolve(promise[c], OrUndefined(msg.value), "reply")
                                        ELSE promise[c]]
        /\ handled' = [c \in CallIds |->
                         IF c \in first THEN Min(handled[c] + 1, 2) ELSE handled[c]]
\* Variant: handleMessage that resolves without the value of the message.
handleMessageDropsValue(hit, msg) ==
    /\ listeners' = listeners \ hit
    /\ promise' = [c \in CallIds |->
                     IF c \in hit THEN resolve(promise[c], Undefined, "reply")
                                  ELSE promise[c]]
    /\ handled' = [c \in CallIds |-> IF c \in hit THEN Min(handled[c] + 1, 2) ELSE handled[c]]
\* handleMessage of the calls in hit: removeEventListener, then resolve.
handleMessage(hit, msg) ==
    /\ listeners' = listeners \ hit
    /\ promise' = [c \in CallIds |->
                     IF c \in hit THEN resolve(promise[c], OrUndefined(msg.value), "reply")
                                  ELSE promise[c]]
    /\ handled' = [c \in CallIds |-> IF c \in hit THEN Min(handled[c] + 1, 2) ELSE handled[c]]

\* The UI event loop dispatches the next message of the host to every registered
\* listener.
DeliverToUI ==
    /\ toUI # <<>>
    /\ ~MicrotaskPending
    /\ LET msg == Head(toUI)
       IN  handleMessage(IF Matches(msg) THEN listeners ELSE {}, msg)
    /\ toUI' = Tail(toUI)
    /\ UNCHANGED <<timer, elapsed, resumed, sendThrew, log, lastCall, toHost,
                   hostVars, gateVars, rt, hook, app>>

\* Time passes for every armed timer.
Tick ==
    /\ \E c \in CallIds : timer[c] = "armed" /\ elapsed[c] < TIMEOUT_MS
    /\ elapsed' = [c \in CallIds |->
                     IF timer[c] = "armed" THEN Min(elapsed[c] + TickMs, TIMEOUT_MS)
                                           ELSE elapsed[c]]
    /\ UNCHANGED <<listeners, promise, timer, handled, resumed, sendThrew, log, lastCall,
                   toHost, toUI, hostVars, gateVars, rt, hook, app>>

\* Variant: a timer callback that does not wait for the delay.
timeoutCallbackEarly(c) ==
    /\ timer[c] = "armed"
    /\ ~MicrotaskPending
    /\ timer' = [timer EXCEPT ![c] = "fired"]
    /\ listeners' = listeners \ {c}
    /\ promise' = [promise EXCEPT ![c] = resolve(promise[c], Undefined, "timeout")]
    /\ UNCHANGED <<elapsed, handled, resumed, sendThrew, log, lastCall, toHost, toUI,
                   hostVars, gateVars, rt, hook, app>>
\* The callback handed to setTimeout(..., 500).  The timer is never cleared, so it
\* also fires after a reply has settled the call.
timeoutCallback(c) ==
    /\ timer[c] = "armed"
    /\ elapsed[c] >= TIMEOUT_MS
    /\ ~MicrotaskPending
    /\ timer' = [timer EXCEPT ![c] = "fired"]
    /\ listeners' = listeners \ {c}
    /\ promise' = [promise EXCEPT ![c] = resolve(promise[c], Undefined, "timeout")]
    /\ UNCHANGED <<elapsed, handled, resumed, sendThrew, log, lastCall, toHost, toUI,
                   hostVars, gateVars, rt, hook, app>>

TimerFire == \E c \in CallIds : timeoutCallback(c)

(***************************************************************************)
(* Storage Responder (host side).                                          *)
(***************************************************************************)

\* Variant: a handler that resolves to true for every message.
handlerResultAlways(msg) == TRUE
\* The value the handler resolves to.
handlerResult(msg) == msg.type \in {"get-storage", "set-storage"}

\* What a scenario observes of the host: the storage operations in the order in
\* which they completed, and every handler call that returned (its message, whether
\* its storage call succeeded, and the value it resolved to).
Returned(msg, ok, result) ==
    IF rt.pc = "off" THEN rt
    ELSE [rt EXCEPT !.hostOps = IF handlerResult(msg)
                                  THEN Append(@, [type |-> msg.type, ok |-> ok]) ELSE @,
                    !.returns = Append(@, [msg |-> msg, ok |-> ok, result |-> result])]

\* figma.ui.onmessage = handler: the handler starts with the next message of the UI
\* and, for get-storage and set-storage, suspends in the clientStorage call.
HostReceive ==
    /\ toHost # <<>>
    /\ Len(hostPending) < MaxQueue
    /\ hostPending' = IF Head(toHost).type \in {"get-storage", "set-storage"}
                        THEN Append(hostPending, Head(toHost))
                        ELSE hostPending
    /\ toHost' = Tail(toHost)
    /\ rt' = IF Head(toHost).type \in {"get-storage", "set-storage"}
               THEN rt
               ELSE Returned(Head(toHost), TRUE, handlerResult(Head(toHost)))
    /\ UNCHANGED <<uiVars, resumed, log, lastCall, toUI, slot, gateVars, hook, app>>

\* Variant: the get-storage branch replies with the value field of the request.
handlerEchoesRequest(i, ok) ==
    /\ i \in 1 .. Len(hostPending)
    /\ LET msg == hostPending[i]
       IN  /\ IF msg.type = "get-storage"
                THEN /\ Len(toUI) < MaxQueue
                     /\ toUI' = Append(toUI, StorageData(msg.key,
                                                IF ok THEN msg.value ELSE Null))
                     /\ slot' = slot
                ELSE /\ slot' = IF ok THEN [slot EXCEPT ![msg.key] = msg.value] ELSE slot
                     /\ toUI' = toUI
           /\ rt' = Returned(msg, ok, handlerResult(msg))
    /\ hostPending' = RemoveAt(hostPending, i)
    /\ UNCHANGED <<uiVars, resumed, log, lastCall, toHost, gateVars, hook, app>>
\* Variant: the set-storage branch does not write a falsy value.
handlerSkipsNull(i, ok) ==
    /\ i \in 1 .. Len(hostPending)
    /\ LET msg == hostPending[i]
       IN  /\ IF msg.type = "get-storage"
                THEN /\ Len(toUI) < MaxQueue
                     /\ toUI' = Append(toUI, StorageData(msg.key,
                                                IF ok THEN slot[msg.key] ELSE Null))
                     /\ slot' = slot
                ELSE /\ slot' = IF ok /\ Truthy(msg.value)
                                  THEN [slot EXCEPT ![msg.key] = msg.value] ELSE slot
                     /\ toUI' = toUI
           /\ rt' = Returned(msg, ok, handlerResult(msg))
    /\ hostPending' = RemoveAt(hostPending, i)
    /\ UNCHANGED <<uiVars, resumed, log, lastCall, toHost, gateVars, hook, app>>
\* Variant: the reply always carries the cache key of the Persistor.
handlerFixedKey(i, ok) ==
    /\ i \in 1 .. Len(hostPending)
    /\ LET msg == hostPending[i]
       IN  /\ IF msg.type = "get-storage"
                THEN /\ Len(toUI) < MaxQueue
                     /\ toUI' = Append(toUI, StorageData(CACHE_KEY,
                                                IF ok THEN slot[msg.key] ELSE Null))
                     /\ slot' = slot
                ELSE /\ slot' = IF ok THEN [slot EXCEPT ![msg.key] = msg.value] ELSE slot
                     /\ toUI' = toUI
           /\ rt' = Returned(msg, ok, handlerResult(msg))
    /\ hostPending' = RemoveAt(hostPending, i)
    /\ UNCHANGED <<uiVars, resumed, log, lastCall, toHost, gateVars, hook, app>>
\* Variant: the set-storage branch writes only into an empty slot.
handlerFirstWriteWins(i, ok) ==
    /\ i \in 1 .. Len(hostPending)
    /\ LET msg == hostPending[i]
       IN  /\ IF msg.type = "get-storage"
                THEN /\ Len(toUI) < MaxQueue
                     /\ toUI' = Append(toUI, StorageData(msg.key,
                                                IF ok THEN slot[msg.key] ELSE Null))
                     /\ slot' = slot
                ELSE /\ slot' = IF ok /\ ~Truthy(slot[msg.key]) THEN [slot EXCEPT ![msg.key] = msg.value] ELSE slot
                     /\ toUI' = toUI
           /\ rt' = Returned(msg, ok, handlerResult(msg))
    /\ hostPending' = RemoveAt(hostPending, i)
    /\ UNCHANGED <<uiVars, resumed, log, lastCall, toHost, gateVars, hook, app>>
\* The clientStorage call of pending handler i completes (ok) or throws (~ok); the
\* handler continues to its end.  clientStorage gives no order among the pending
\* calls.
handler(i, ok) ==
    /\ i \in 1 .. Len(hostPending)
    /\ LET msg == hostPending[i]
       IN  /\ IF msg.type = "get-storage"
                THEN /\ Len(toUI) < MaxQueue
                     /\ toUI' = Append(toUI, StorageData(msg.key,
                                                IF ok THEN slot[msg.key] ELSE Null))
                     /\ slot' = slot
                ELSE /\ slot' = IF ok THEN [slot EXCEPT ![msg.key] = msg.value] ELSE slot
                     /\ toUI' = toUI
           /\ rt' = Returned(msg, ok, handlerResult(msg))
    /\ hostPending' = RemoveAt(hostPending, i)
    /\ UNCHANGED <<uiVars, resumed, log, lastCall, toHost, gateVars, hook, app>>

HostFinish == \E i \in 1 .. MaxQueue, ok \in BOOLEAN : handler(i, ok)

(***************************************************************************)
(* Cache Gate.                                                             *)
(***************************************************************************)

\* Variant: setQueryData called with the key of the todos query.
setQueryDataTodosOnly(qc, k, d) == [qc EXCEPT !["todos"] = d]
\* queryClient.setQueryData(queryKey, data)
setQueryData(qc, k, d) == [qc EXCEPT ![k] = d]

\* Variant: a loop that hydrates only the entries whose bookkeeping says fresh.
RECURSIVE forEachQueryFreshOnly(_, _)
forEachQueryFreshOnly(qc, qs) ==
    IF qs = <<>> THEN [cache |-> qc, threw |-> FALSE]
    ELSE LET query == Head(qs)
         IN  IF query.shape = "null" THEN [cache |-> qc, threw |-> TRUE]
             ELSE IF query.shape = "ok" /\ query.meta = 0
                    THEN forEachQueryFreshOnly(setQueryData(qc, query.queryKey, query.data),
                                               Tail(qs))
                    ELSE forEachQueryFreshOnly(qc, Tail(qs))
\* Variant: a loop that stops after the first entry it hydrated.
RECURSIVE forEachQueryFirstOnly(_, _)
forEachQueryFirstOnly(qc, qs) ==
    IF qs = <<>> THEN [cache |-> qc, threw |-> FALSE]
    ELSE LET query == Head(qs)
         IN  IF query.shape = "null" THEN [cache |-> qc, threw |-> TRUE]
             ELSE IF query.shape = "ok"
                    THEN [cache |-> setQueryData(qc, query.queryKey, query.data),
                          threw |-> FALSE]
                    ELSE forEachQueryFirstOnly(qc, Tail(qs))
\* queries.forEach(...): the entries are visited in order; reading queryKey of a
\* null entry throws and ends the loop.
RECURSIVE forEachQuery(_, _)
forEachQuery(qc, qs) ==
    IF qs = <<>> THEN [cache |-> qc, threw |-> FALSE]
    ELSE LET query == Head(qs)
         IN  IF query.shape = "null" THEN [cache |-> qc, threw |-> TRUE]
             ELSE IF query.shape = "ok"
                    THEN forEachQuery(setQueryData(qc, query.queryKey, query.data), Tail(qs))
                    ELSE forEachQuery(qc, Tail(qs))

\* Variant: a hydration block that writes nothing.
hydrateNothing(qc, restoredState) == [cache |-> qc, threw |-> FALSE]
\* The hydration block of onMount applied to restoredState.
hydrate(qc, restoredState) ==
    IF restoredState.kind = "client" THEN forEachQuery(qc, restoredState.queries)
    ELSE IF restoredState.kind = "badQueries" THEN [cache |-> qc, threw |-> TRUE]
    ELSE [cache |-> qc, threw |-> FALSE]

\* Variant: onMount that does not wait for restoreClient().
onMountNoAwait ==
    /\ gate = "cold"
    /\ \E throws \in BOOLEAN : restoreClient(GateCall, throws)
    /\ gate' = "live"
    /\ ready' = TRUE
    /\ registered' = registered + 1
    /\ UNCHANGED <<resumed, lastCall, toUI, hostVars, cache, dirty, rt, hook, app>>
\* Variant: onMount that registers the persister before it restores.
onMountRegisterFirst ==
    /\ gate = "cold"
    /\ \E throws \in BOOLEAN : restoreClient(GateCall, throws)
    /\ gate' = "restoring"
    /\ registered' = registered + 1
    /\ UNCHANGED <<resumed, lastCall, toUI, hostVars, ready, cache, dirty, rt, hook, app>>
\* onMount up to `await persister.restoreClient()`.
onMount ==
    /\ gate = "cold"
    /\ \E throws \in BOOLEAN : restoreClient(GateCall, throws)
    /\ gate' = "restoring"
    /\ UNCHANGED <<resumed, lastCall, toUI, hostVars, ready, cache, registered, dirty, rt, hook, app>>

\* Variant: onMount that does not write the restored data into the cache.
onMountResumeNoHydrate ==
    /\ gate = "restoring"
    /\ Settled(GateCall)
    /\ resumed[GateCall] = 0
    /\ resumed' = [resumed EXCEPT ![GateCall] = 1]
    /\ IF promise[GateCall].state = "rejected"
         THEN /\ gate' = "failed"
              /\ UNCHANGED <<ready, cache, registered>>
         ELSE LET h == hydrate(cache, promise[GateCall].value)
              IN  /\ cache' = cache
                  /\ IF h.threw
                       THEN /\ gate' = "failed"
                            /\ UNCHANGED <<ready, registered>>
                       ELSE /\ gate' = "live"
                            /\ registered' = registered + 1
                            /\ ready' = TRUE
    /\ UNCHANGED <<uiVars, log, lastCall, toHost, toUI, hostVars, dirty, rt, hook, app>>
\* Variant: onMount that returns when there is nothing to restore.
onMountResumeEarlyReturn ==
    /\ gate = "restoring"
    /\ Settled(GateCall)
    /\ resumed[GateCall] = 0
    /\ resumed' = [resumed EXCEPT ![GateCall] = 1]
    /\ IF promise[GateCall].state = "rejected"
         THEN /\ gate' = "failed"
              /\ UNCHANGED <<ready, cache, registered>>
         ELSE LET h == hydrate(cache, promise[GateCall].value)
              IN  /\ cache' = h.cache
                  /\ IF h.threw \/ ~Truthy(promise[GateCall].value)
                       THEN /\ gate' = "failed"
                            /\ UNCHANGED <<ready, registered>>
                       ELSE /\ gate' = "live"
                            /\ registered' = registered + 1
                            /\ ready' = TRUE
    /\ UNCHANGED <<uiVars, log, lastCall, toHost, toUI, hostVars, dirty, rt, hook, app>>
\* Variant: onMount that starts over when the restore timed out.
onMountResumeRetry ==
    /\ gate = "restoring"
    /\ Settled(GateCall)
    /\ resumed[GateCall] = 0
    /\ IF promise[GateCall].by = "timeout"
         THEN /\ gate' = "cold"
              /\ promise' = [promise EXCEPT ![GateCall] = NoPromise]
              /\ timer' = [timer EXCEPT ![GateCall] = "none"]
              /\ UNCHANGED <<resumed, ready, cache, registered>>
         ELSE /\ resumed' = [resumed EXCEPT ![GateCall] = 1]
              /\ UNCHANGED <<promise, timer>>
              /\ IF promise[GateCall].state = "rejected"
                   THEN /\ gate' = "failed"
                        /\ UNCHANGED <<ready, cache, registered>>
                   ELSE LET h == hydrate(cache, promise[GateCall].value)
                        IN  /\ cache' = h.cache
                            /\ IF h.threw
                                 THEN /\ gate' = "failed"
                                      /\ UNCHANGED <<ready, registered>>
                                 ELSE /\ gate' = "live"
                                      /\ registered' = registered + 1
                                      /\ ready' = TRUE
    /\ UNCHANGED <<listeners, elapsed, handled, sendThrew, log, lastCall, toHost, toUI,
                   hostVars, dirty, rt, hook, app>>
\* onMount after the await: hydration, persistQueryClient, ready = true.  A rejected
\* restore, or an exception in the hydration loop, ends onMount before both.
onMountResume ==
    /\ gate = "restoring"
    /\ Settled(GateCall)
    /\ resumed[GateCall] = 0
    /\ resumed' = [resumed EXCEPT ![GateCall] = 1]
    /\ IF promise[GateCall].state = "rejected"
         THEN /\ gate' = "failed"
              /\ UNCHANGED <<ready, cache, registered>>
         ELSE LET h == hydrate(cache, promise[GateCall].value)
              IN  /\ cache' = h.cache
                  /\ IF h.threw
                       THEN /\ gate' = "failed"
                            /\ UNCHANGED <<ready, registered>>
                       ELSE /\ gate' = "live"
                            /\ registered' = registered + 1
                            /\ ready' = TRUE
    /\ UNCHANGED <<uiVars, log, lastCall, toHost, toUI, hostVars, dirty, rt, hook, app>>

\* The mounted application: todosQuery (queryKey ['todos']) receives data from the
\* backend and the query cache stores it.
QueryFetched ==
    /\ ready
    /\ ~MicrotaskPending
    /\ \E d \in Data :
         /\ cache["todos"] # d
         /\ cache' = setQueryData(cache, "todos", d)
    /\ dirty' = TRUE
    /\ UNCHANGED <<uiVars, resumed, log, lastCall, toHost, toUI, hostVars, gate, ready,
                   registered, rt, hook, app>>

\* The snapshot of the cache that the registered persister is handed.
RECURSIVE dehydrateFrom(_, _)
dehydrateFrom(qc, i) ==
    IF i > Len(KeyOrder) THEN <<>>
    ELSE IF qc[KeyOrder[i]] = NoData THEN dehydrateFrom(qc, i + 1)
    ELSE <<Query(KeyOrder[i], qc[KeyOrder[i]], 1)>> \o dehydrateFrom(qc, i + 1)
dehydrate(qc) == Client(dehydrateFrom(qc, 1))

\* persistQueryClient's subscription: a changed cache is handed to persistClient.
AutoPersist ==
    /\ registered > 0
    /\ dirty
    /\ ~MicrotaskPending
    /\ Len(toHost) < MaxQueue
    /\ \E throws \in BOOLEAN : persistClient(dehydrate(cache), throws)
    /\ dirty' = FALSE
    /\ UNCHANGED <<uiVars, resumed, toUI, hostVars, gate, ready, cache, registered, rt, hook, app>>

(***************************************************************************)
(* The persist-then-restore scenario: one UI instance calls persistClient  *)
(* (or removeClient), then a fresh UI instance calls restoreClient.        *)
(***************************************************************************)
RTWrite ==
    /\ rt.pc = "start"
    /\ \E throws \in BOOLEAN :
         IF rt.op = "persist" THEN persistClient(rt.snap, throws) ELSE removeClient(throws)
    /\ rt' = [rt EXCEPT !.pc = "written"]
    /\ UNCHANGED <<uiVars, resumed, toUI, hostVars, gateVars, hook, app>>

RTRestore ==
    /\ rt.pc = "written"
    /\ \E throws \in BOOLEAN : restoreClient(GateCall, throws)
    /\ rt' = [rt EXCEPT !.pc = "restoring"]
    /\ UNCHANGED <<resumed, lastCall, toUI, hostVars, gateVars, hook, app>>

RTResume ==
    /\ rt.pc = "restoring"
    /\ Settled(GateCall)
    /\ resumed[GateCall] = 0
    /\ resumed' = [resumed EXCEPT ![GateCall] = 1]
    /\ rt' = [rt EXCEPT !.pc = "done"]
    /\ UNCHANGED <<uiVars, log, lastCall, toHost, toUI, hostVars, gateVars, hook, app>>

(***************************************************************************)
(* Specifications.                                                         *)
(***************************************************************************)
\* No useClientCache instance exists.
HookOff ==
    [phase |-> "none", variant |-> "none", cachedData |-> Null, cacheChecked |-> FALSE,
     listening |-> FALSE, timer |-> "none", elapsed |-> 0, liveData |-> Undefined,
     isLoading |-> FALSE, changes |-> 0, others |-> 0, lastLive |-> Null,
     returned |-> [displayData |-> Null, shouldRender |-> FALSE, shouldShowLoading |-> FALSE]]

\* A call of addTodo, toggleTodo or deleteTodo that has not been made.
NoCall == [fn |-> "none", arg |-> <<>>, state |-> "none", mutation |-> "none",
           invalidated |-> <<>>]
\* App.svelte after its script ran: todoText is '' and no handler has been called.
AppIdle == [todoText |-> <<>>, calls |-> [c \in TodoCalls |-> NoCall]]

InitIdle ==
    /\ app = AppIdle
    /\ listeners = {}
    /\ promise = [c \in CallIds |-> NoPromise]
    /\ timer = [c \in CallIds |-> "none"]
    /\ elapsed = [c \in CallIds |-> 0]
    /\ handled = [c \in CallIds |-> 0]
    /\ resumed = [c \in CallIds |-> 0]
    /\ sendThrew = [c \in CallIds |-> FALSE]
    /\ log = {}
    /\ lastCall = [op |-> "none", threw |-> FALSE, outcome |-> "none"]
    /\ toHost = <<>>
    /\ toUI = <<>>
    /\ hostPending = <<>>
    /\ ready = FALSE
    /\ cache = EmptyCache
    /\ registered = 0
    /\ dirty = FALSE

InitCommon ==
    /\ InitIdle
    /\ slot \in {[k \in Keys |-> IF k = CACHE_KEY THEN v ELSE Undefined] : v \in StoredValues}
    /\ hook = HookOff

RTOff == [pc |-> "off", op |-> "none", snap |-> Undefined, before |-> Undefined,
          hostOps |-> <<>>, returns |-> <<>>, sent |-> <<>>]

\* The plugin UI is opened: the Gate and the host start.
Init ==
    /\ InitCommon
    /\ gate = "cold"
    /\ rt = RTOff

Environment == DeliverToUI \/ Tick \/ TimerFire \/ HostReceive \/ HostFinish

Next == onMount \/ onMountResume \/ QueryFetched \/ AutoPersist \/ Environment

Spec == Init /\ [][Next]_vars

\* The UI event loop runs every task that is ready: continuations, timers, and
\* the clock advances.  Nothing is assumed of the host or of the channel.
EventLoop ==
    /\ WF_vars(onMountResume)
    /\ WF_vars(Tick)
    /\ \A c \in CallIds : WF_vars(timeoutCallback(c))

FairSpec == Spec /\ EventLoop

InitRT ==
    /\ InitCommon
    /\ gate = "off"
    /\ rt \in [pc : {"start"}, op : {"persist", "remove"},
               snap : Snapshots \ {Client(<<>>)}, before : {slot[CACHE_KEY]},
               hostOps : {<<>>}, returns : {<<>>}, sent : {<<>>}]

NextRT == RTWrite \/ RTRestore \/ RTResume \/ Environment

SpecRT == InitRT /\ [][NextRT]_vars

(***************************************************************************)
(* The Responder scenario: UI instances (the Persistor, the useClientCache *)
(* hook, other plugin code) post messages to the host; the Responder       *)
(* serves them.  rt.sent is the sequence of the messages posted.           *)
(***************************************************************************)
V1 == Client(<<Query("todos", "d1", 0)>>)
V2 == Client(<<Query("todos", "d2", 0)>>)

HostMessages ==
    { GetStorage(CACHE_KEY), GetStorage(TODOS_CACHE),
      SetStorage(CACHE_KEY, V1), SetStorage(CACHE_KEY, V2), SetStorage(CACHE_KEY, Null),
      SetStorage(TODOS_CACHE, V2), CustomMessage }

\* parent.postMessage({ pluginMessage: m }, '*')
HostPost ==
    /\ rt.pc = "host"
    /\ Len(rt.sent) < MaxSends
    /\ Len(toHost) < MaxQueue
    /\ \E m \in HostMessages :
         /\ toHost' = Append(toHost, m)
         /\ rt' = [rt EXCEPT !.sent = Append(@, m)]
    /\ UNCHANGED <<uiVars, resumed, log, lastCall, toUI, hostVars, gateVars, hook, app>>

InitHost ==
    /\ InitCommon
    /\ slot[CACHE_KEY] \in {Undefined, V1}
    /\ gate = "off"
    /\ rt = [RTOff EXCEPT !.pc = "host", !.before = slot[CACHE_KEY]]

NextHost == HostPost \/ HostReceive \/ HostFinish \/ DeliverToUI

SpecHost == InitHost /\ [][NextHost]_vars

(***************************************************************************)
(* The restore-calls scenario: code of the UI calls restoreClient() several *)
(* times, at any moment, while the window also receives 'message' events    *)
(* that are not replies for the fixed key.  rt.sent is the sequence of      *)
(* those other events.                                                      *)
(***************************************************************************)
OtherEvents == {NoPluginMessage, CustomMessage, StorageData(TODOS_CACHE, V1)}

\* await persister.restoreClient(), called by some task of the UI; the calls are
\* numbered in the order in which they are made.
CallRestore ==
    /\ rt.pc = "calls"
    /\ ~MicrotaskPending
    /\ \E c \in CallIds, throws \in BOOLEAN :
         /\ \A d \in CallIds : d < c => promise[d].state # "none"
         /\ restoreClient(c, throws)
    /\ UNCHANGED <<resumed, lastCall, toUI, hostVars, gateVars, rt, hook, app>>

\* The caller of a settled call continues after its await.
CallResume ==
    /\ rt.pc = "calls"
    /\ \E c \in CallIds :
         /\ Settled(c)
         /\ resumed[c] = 0
         /\ resumed' = [resumed EXCEPT ![c] = 1]
    /\ UNCHANGED <<uiVars, log, lastCall, toHost, toUI, hostVars, gateVars, rt, hook, app>>

\* Another 'message' event is queued for the window.
WindowMessage ==
    /\ rt.pc = "calls"
    /\ Len(rt.sent) < MaxForeign
    /\ Len(toUI) < MaxQueue
    /\ \E m \in OtherEvents :
         /\ toUI' = Append(toUI, m)
         /\ rt' = [rt EXCEPT !.sent = Append(@, m)]
    /\ UNCHANGED <<uiVars, resumed, log, lastCall, toHost, hostVars, gateVars, hook, app>>

InitCalls ==
    /\ InitCommon
    /\ slot[CACHE_KEY] \in {Undefined, V1}
    /\ gate = "off"
    /\ rt = [RTOff EXCEPT !.pc = "calls", !.before = slot[CACHE_KEY]]

NextCalls == CallRestore \/ CallResume \/ WindowMessage \/ Environment

SpecCalls == InitCalls /\ [][NextCalls]_vars

(***************************************************************************)
(* The hydration scenario: the hydration block of onMount is applied to a   *)
(* fresh cache for two restored snapshots, the second being the first with  *)
(* other bookkeeping fields or with its entries in another order.           *)
(***************************************************************************)
HydrateKeys == QueryKeys \cup {"settings"}
Meta == {0, 1}

\* The entries a restored snapshot may hold.
Entries ==
    {Query(k, d, m) : k \in HydrateKeys, d \in Data, m \in Meta}
        \cup {NoStateQuery("user"), NoKeyQuery("d1"), NullQuery}

HydrateInputs == {Client(qs) : qs \in UNION {[1 .. n -> Entries] : n \in 0 .. MaxEntries}}

\* The entries qs with the bookkeeping fields ms.
Retouch(qs, ms) ==
    [i \in 1 .. Len(qs) |-> IF qs[i].shape = "null" THEN qs[i] ELSE [qs[i] EXCEPT !.meta = ms[i]]]
\* The entries qs in the order p.
Permute(qs, p) == [i \in 1 .. Len(qs) |-> qs[p[i]]]

Variants(a) ==
    {Client(Retouch(a.queries, ms)) : ms \in [1 .. Len(a.queries) -> Meta]}
        \cup {Client(Permute(a.queries, p)) : p \in Permutations(1 .. Len(a.queries))}

FreshCache == [k \in HydrateKeys |-> NoData]

\* The hydration block runs for both snapshots, each on a fresh cache.
Hydrate ==
    /\ rt.pc = "hydrate"
    /\ rt' = [rt EXCEPT !.pc = "hydrated",
                        !.results = <<hydrate(FreshCache, rt.first),
                                      hydrate(FreshCache, rt.second)>>]
    /\ UNCHANGED <<uiVars, resumed, log, lastCall, toHost, toUI, hostVars, gateVars, hook, app>>

InitHydrate ==
    /\ InitCommon
    /\ slot[CACHE_KEY] = Undefined
    /\ gate = "off"
    /\ rt \in UNION {{[pc |-> "hydrate", first |-> a, second |-> b, results |-> <<>>] :
                         b \in Variants(a)} : a \in HydrateInputs}

NextHydrate == Hydrate

SpecHydrate == InitHydrate /\ [][NextHydrate]_vars

(***************************************************************************)
(* useClientCache (src/ui/utils/useClientCache.svelte.ts, its getter-based  *)
(* variant and useClientCache.ts), used by one component with the key       *)
(* 'todos_cache'.  hook.variant is the variant in use:                      *)
(*   svelte   liveData and isLoading are values, fallback timer of 200 ms   *)
(*   getter   getLiveData and getIsLoading are functions, timer of 500 ms   *)
(*   plain    useClientCache.ts: values, no timer, and the derived values   *)
(*            are returned as they are at the time of the call.  The runes   *)
(*            of a plain .ts file are either not compiled, so that the call *)
(*            throws, or compiled as in the .svelte.ts file.                *)
(***************************************************************************)
HookVariants == {"svelte", "getter", "plain"}

\* Live data of the component's data source; Zero is a value that is falsy but
\* neither null nor undefined.
Item(d) == [kind |-> "scalar", queries |-> <<d>>]
Zero == [kind |-> "zero", queries |-> <<>>]
LiveValues == {Undefined, Null, Zero, Item("d1"), Item("d2")}

\* v === null || v === undefined
Nullish(v) == v.kind \in {"undefined", "null"}
\* !v
Falsy(v) == Nullish(v) \/ v.kind = "zero"

\* Variant: every hook variant starts a fallback timer.
HasTimerAlways(variant) == variant \in HookVariants
HasTimer(variant) == variant \in {"svelte", "getter"}
FallbackMs(variant) == IF variant = "svelte" THEN HOOK_TIMEOUT_MS ELSE GETTER_TIMEOUT_MS

\* Variant: cachedData ?? liveData.
displayDataCachedFirst(h) == IF Nullish(h.cachedData) THEN h.liveData ELSE h.cachedData
\* liveData ?? cachedData
displayDataOf(h) == IF Nullish(h.liveData) THEN h.cachedData ELSE h.liveData
\* Variant: a loading flag that does not look at cacheChecked.
shouldShowLoadingUngated(h) == Falsy(displayDataOf(h)) /\ h.isLoading
\* cacheChecked && !displayData && isLoading
shouldShowLoadingOf(h) == h.cacheChecked /\ Falsy(displayDataOf(h)) /\ h.isLoading
shouldRenderOf(h) == h.cacheChecked

\* What the component reads from the object the hook returned: getters over the
\* derived values, or (plain) the values the object was built with.
displayData == IF hook.variant = "plain" THEN hook.returned.displayData ELSE displayDataOf(hook)
shouldRender == IF hook.variant = "plain" THEN hook.returned.shouldRender ELSE shouldRenderOf(hook)
shouldShowLoading ==
    IF hook.variant = "plain" THEN hook.returned.shouldShowLoading ELSE shouldShowLoadingOf(hook)

hookFrame ==
    UNCHANGED <<uiVars, resumed, log, lastCall, hostVars, gateVars, rt, app>>

\* The component calls useClientCache(cacheKey, liveData, isLoading) while it is
\* initialised.
useClientCache ==
    /\ hook.phase = "none"
    /\ \E v \in HookVariants, live \in LiveValues, loading \in BOOLEAN, compiled \in BOOLEAN :
         LET h == [HookOff EXCEPT !.variant = v, !.liveData = live, !.isLoading = loading]
         IN  hook' = IF v = "plain" /\ ~compiled
                       THEN [h EXCEPT !.phase = "threw"]
                       ELSE [h EXCEPT !.phase = "created",
                                      !.returned = [displayData |-> displayDataOf(h),
                                                    shouldRender |-> shouldRenderOf(h),
                                                    shouldShowLoading |-> shouldShowLoadingOf(h)]]
    /\ UNCHANGED <<toHost, toUI>>
    /\ hookFrame

\* Variant: an $effect without the test for null and undefined.
saveEffectAlways(h, outbox) ==
    [hook |-> [h EXCEPT !.cachedData = h.liveData, !.lastLive = h.liveData],
     toHost |-> Append(outbox, SetStorage(TODOS_CACHE, h.liveData))]
\* The $effect of the hook for the live data now seen: h is the state before it.
\* lastLive records the last live value the effect saw that is neither null nor
\* undefined (Null: none yet); the code does not read it.
saveEffect(h, outbox) ==
    IF Nullish(h.liveData)
      THEN [hook |-> h, toHost |-> outbox]
      ELSE [hook |-> [h EXCEPT !.cachedData = h.liveData, !.lastLive = h.liveData],
            toHost |-> Append(outbox, SetStorage(TODOS_CACHE, h.liveData))]

\* The component is mounted: the onMount callback of the hook runs (listener,
\* get-storage, timer), then the $effect runs for the first time.
hookOnMount ==
    /\ hook.phase = "created"
    /\ toHost = <<>>
    /\ LET h == [hook EXCEPT !.phase = "mounted",
                             !.listening = TRUE,
                             !.timer = IF HasTimer(hook.variant) THEN "armed" ELSE "none",
                             !.elapsed = 0]
           e == saveEffect(h, Append(toHost, GetStorage(TODOS_CACHE)))
       IN  /\ hook' = e.hook
           /\ toHost' = e.toHost
    /\ UNCHANGED toUI
    /\ hookFrame

\* The data source of the component changes.  Only the getter-based variant sees
\* it: the $effect runs again when the live data changed.
LiveDataChanges ==
    /\ hook.phase = "mounted"
    /\ hook.variant = "getter"
    /\ hook.changes < MaxChanges
    /\ Len(toHost) < MaxQueue
    /\ \E live \in LiveValues, loading \in BOOLEAN :
         /\ <<live, loading>> # <<hook.liveData, hook.isLoading>>
         /\ LET h == [hook EXCEPT !.liveData = live, !.isLoading = loading,
                                  !.changes = @ + 1]
                e == IF live = hook.liveData THEN [hook |-> h, toHost |-> toHost]
                                             ELSE saveEffect(h, toHost)
            IN  /\ hook' = e.hook
                /\ toHost' = e.toHost
    /\ UNCHANGED toUI
    /\ hookFrame

\* Variant: a handleMessage that takes the storage-data message of any key.
hookHandleMessageAnyKey(h, msg) ==
    IF h.listening /\ msg.type = "storage-data"
      THEN [h EXCEPT !.cachedData = IF h.variant = "getter" /\ Nullish(msg.value)
                                      THEN Null ELSE msg.value,
                     !.cacheChecked = TRUE]
      ELSE h
\* handleMessage of the hook: the listener stays registered until the component is
\* destroyed.
hookHandleMessage(h, msg) ==
    IF h.listening /\ msg.type = "storage-data" /\ msg.key = TODOS_CACHE
      THEN [h EXCEPT !.cachedData = IF h.variant = "getter" /\ Nullish(msg.value)
                                      THEN Null ELSE msg.value,
                     !.cacheChecked = TRUE]
      ELSE h

\* The UI event loop dispatches the next message to the listener of the hook.
HookDeliver ==
    /\ hook.phase \in {"mounted", "destroyed"}
    /\ toUI # <<>>
    /\ hook' = hookHandleMessage(hook, Head(toUI))
    /\ toUI' = Tail(toUI)
    /\ UNCHANGED toHost
    /\ hookFrame

\* Time passes for the fallback timer.
HookTick ==
    /\ hook.timer = "armed"
    /\ hook.elapsed < FallbackMs(hook.variant)
    /\ hook' = [hook EXCEPT !.elapsed = Min(@ + TickMs, FallbackMs(hook.variant))]
    /\ UNCHANGED <<toHost, toUI>>
    /\ hookFrame

\* The callback handed to setTimeout(..., 200) or (..., 500).
hookTimeout ==
    /\ hook.timer = "armed"
    /\ hook.elapsed >= FallbackMs(hook.variant)
    /\ hook' = [hook EXCEPT !.timer = "fired", !.cacheChecked = TRUE]
    /\ UNCHANGED <<toHost, toUI>>
    /\ hookFrame

\* Variant: a cleanup that removes the listener and leaves the timer running.
hookCleanupKeepsTimer ==
    /\ hook.phase = "mounted"
    /\ hook' = [hook EXCEPT !.phase = "destroyed", !.listening = FALSE]
    /\ UNCHANGED <<toHost, toUI>>
    /\ hookFrame
\* The component is destroyed: the function returned to onMount runs.
hookCleanup ==
    /\ hook.phase = "mounted"
    /\ hook' = [hook EXCEPT !.phase = "destroyed",
                            !.listening = FALSE,
                            !.timer = IF @ = "armed" THEN "cleared" ELSE @]
    /\ UNCHANGED <<toHost, toUI>>
    /\ hookFrame

\* Other 'message' events of the window: no pluginMessage, or the reply to the
\* Persistor's request.
HookOtherEvents == {NoPluginMessage, StorageData(CACHE_KEY, V1)}

HookOtherEvent ==
    /\ hook.phase = "mounted"
    /\ hook.others < MaxForeign
    /\ Len(toUI) < MaxQueue
    /\ \E m \in HookOtherEvents : toUI' = Append(toUI, m)
    /\ hook' = [hook EXCEPT !.others = @ + 1]
    /\ UNCHANGED toHost
    /\ hookFrame

InitHook ==
    /\ InitIdle
    /\ slot \in {[k \in Keys |-> IF k = TODOS_CACHE THEN v ELSE Undefined] :
                   v \in {Undefined, Item("d1")}}
    /\ hook = HookOff
    /\ gate = "off"
    /\ rt = RTOff

NextHook ==
    \/ useClientCache \/ hookOnMount \/ LiveDataChanges \/ HookDeliver \/ HookTick
    \/ hookTimeout \/ hookCleanup \/ HookOtherEvent \/ HostReceive \/ HostFinish

SpecHook == InitHook /\ [][NextHook]_vars

(***************************************************************************)
(* The todo application (src/ui/App.svelte).  Each call of addTodo,         *)
(* toggleTodo or deleteTodo is an async function: its synchronous part runs *)
(* up to the await of convex.mutation, the rest runs as a microtask once    *)
(* the backend has settled the promise of the mutation.                     *)
(***************************************************************************)
RECURSIVE TrimStart(_), TrimEnd(_)
TrimStart(t) == IF t # <<>> /\ Head(t) = " " THEN TrimStart(Tail(t)) ELSE t
TrimEnd(t) == IF t # <<>> /\ t[Len(t)] = " " THEN TrimEnd(SubSeq(t, 1, Len(t) - 1)) ELSE t
\* String.prototype.trim
trim(t) == TrimEnd(TrimStart(t))

appFrame ==
    UNCHANGED <<uiVars, resumed, log, lastCall, toHost, toUI, hostVars, gateVars, rt, hook>>

\* The rest of an async handler is queued: microtasks run before the next event.
AppMicrotaskPending ==
    \E c \in TodoCalls :
      app.calls[c].state = "awaiting" /\ app.calls[c].mutation \in {"resolved", "rejected"}

\* The next call of a handler: calls are numbered in the order they are made.
NextCall(c) ==
    /\ ~AppMicrotaskPending
    /\ app.calls[c].state = "none"
    /\ \A d \in TodoCalls : d < c => app.calls[d].state # "none"

\* The user edits the input field (bind:value={todoText}).
TypeText ==
    /\ ~AppMicrotaskPending
    /\ \E t \in Texts : t # app.todoText /\ app' = [app EXCEPT !.todoText = t]
    /\ appFrame

\* convex.mutation(...): the request to the backend and its promise.
mutation(call, fn, arg) ==
    [call EXCEPT !.fn = fn, !.arg = arg, !.state = "awaiting", !.mutation = "pending"]

\* Variant: addTodo without the test of the trimmed text.
addTodoUnchecked(c) ==
    /\ NextCall(c)
    /\ app' = [app EXCEPT !.calls[c] = mutation(@, "addTodo", trim(app.todoText))]
    /\ appFrame
\* addTodo up to its await: Submit was clicked or Enter pressed.
addTodo(c) ==
    /\ NextCall(c)
    /\ app' = IF trim(app.todoText) # <<>>
                THEN [app EXCEPT !.calls[c] = mutation(@, "addTodo", trim(app.todoText))]
                ELSE [app EXCEPT !.calls[c] = [@ EXCEPT !.fn = "addTodo", !.state = "done"]]
    /\ appFrame

\* toggleTodo(id) up to its await: the checkbox of a todo changed.
toggleTodo(c) ==
    /\ NextCall(c)
    /\ \E id \in TodoIds : app' = [app EXCEPT !.calls[c] = mutation(@, "toggleTodo", <<id>>)]
    /\ appFrame

\* deleteTodo(id) up to its await: the delete button of a todo was clicked.
deleteTodo(c) ==
    /\ NextCall(c)
    /\ \E id \in TodoIds : app' = [app EXCEPT !.calls[c] = mutation(@, "deleteTodo", <<id>>)]
    /\ appFrame

\* The backend settles the promise of a mutation: applied, or failed.
MutationSettles(c) ==
    /\ ~AppMicrotaskPending
    /\ app.calls[c].mutation = "pending"
    /\ \E outcome \in {"resolved", "rejected"} :
         app' = [app EXCEPT !.calls[c].mutation = outcome]
    /\ appFrame

\* queryClient.invalidateQueries({ queryKey: ['todos'] })
invalidateQueries(call) == [call EXCEPT !.invalidated = Append(@, "todos")]

\* Variant: the rest of a handler in a finally block, run for a rejection as well.
afterAwaitFinally(call) == [invalidateQueries(call) EXCEPT !.state = "done"]
\* The rest of toggleTodo and deleteTodo after the await: a rejected promise makes
\* the await throw, which ends the call.
afterAwait(call) ==
    IF call.mutation = "rejected"
      THEN [call EXCEPT !.state = "threw"]
      ELSE [invalidateQueries(call) EXCEPT !.state = "done"]

addTodoResume(c) ==
    /\ app.calls[c].fn = "addTodo"
    /\ app.calls[c].state = "awaiting"
    /\ app.calls[c].mutation \in {"resolved", "rejected"}
    /\ app' = [app EXCEPT !.calls[c] = afterAwait(@),
                          !.todoText = IF app.calls[c].mutation = "resolved" THEN <<>> ELSE @]
    /\ appFrame

toggleTodoResume(c) ==
    /\ app.calls[c].fn = "toggleTodo"
    /\ app.calls[c].state = "awaiting"
    /\ app.calls[c].mutation \in {"resolved", "rejected"}
    /\ app' = [app EXCEPT !.calls[c] = afterAwait(@)]
    /\ appFrame

deleteTodoResume(c) ==
    /\ app.calls[c].fn = "deleteTodo"
    /\ app.calls[c].state = "awaiting"
    /\ app.calls[c].mutation \in {"resolved", "rejected"}
    /\ app' = [app EXCEPT !.calls[c] = afterAwait(@)]
    /\ appFrame

InitApp ==
    /\ InitIdle
    /\ slot = [k \in Keys |-> Undefined]
    /\ hook = HookOff
    /\ gate = "off"
    /\ rt = RTOff

NextApp ==
    \/ TypeText
    \/ \E c \in TodoCalls :
         \/ addTodo(c) \/ toggleTodo(c) \/ deleteTodo(c) \/ MutationSettles(c)
         \/ addTodoResume(c) \/ toggleTodoResume(c) \/ deleteTodoResume(c)

SpecApp == InitApp /\ [][NextApp]_vars

(***************************************************************************)
(* Properties.                                                             *)
(***************************************************************************)

\* C1 (gate ordering): the application is mounted (ready) only when the Gate's
\* restoreClient() call has settled with a value and onMount has run to its end,
\* and at the step that mounts it the query cache is the empty cache hydrated, to
\* the end of the loop, from the restored value.
GateOrdering ==
    /\ [](ready => (Fulfilled(GateCall) /\ gate = "live"))
    /\ [][(~ready /\ ready') =>
            /\ Fulfilled(GateCall)
            /\ ~hydrate(EmptyCache, promise[GateCall].value).threw
            /\ cache' = hydrate(EmptyCache, promise[GateCall].value).cache]_vars

\* The application is mounted with a cache hydrated from a reply that came in only
\* after the 500 ms had passed (but before the timer callback ran).
GateOrderingWitness ==
    /\ ready
    /\ promise[GateCall].by = "reply"
    /\ elapsed[GateCall] >= TIMEOUT_MS
    /\ cache["todos"] # NoData
    /\ cache["user"] # NoData

\* C2 (gate liveness): in every fair execution the Gate reaches Live: ready becomes
\* true eventually.
GateLiveness == <>ready

\* C3 (timeout fallback): a restoreClient() call that sent its request and to which
\* no matching storage-data message was delivered stays pending while its timer has
\* not fired, is resolved with undefined by the timer callback, not before the
\* 500 ms have passed, and does not stay pending forever.
TimeoutFallback ==
    /\ [](\A c \in CallIds :
            /\ (handled[c] = 0 /\ timer[c] = "armed") => promise[c].state = "pending"
            /\ (handled[c] = 0 /\ Fulfilled(c)) =>
                  /\ promise[c].value = Undefined
                  /\ promise[c].by = "timeout"
                  /\ timer[c] = "fired"
                  /\ elapsed[c] >= TIMEOUT_MS)
    /\ \A c \in CallIds : (promise[c].state = "pending") ~> Fulfilled(c)

\* The call was resolved by the timer while the host had not even received the
\* request.
TimeoutFallbackWitness ==
    /\ promise[GateCall].by = "timeout"
    /\ promise[GateCall].value = Undefined
    /\ toHost # <<>>
    /\ Head(toHost).type = "get-storage"

\* C4 (restore never raises): a restoreClient() call whose postMessage threw is
\* resolved with undefined and the failure is logged.
RestoreNeverRaises ==
    \A c \in CallIds :
        sendThrew[c] => /\ Fulfilled(c)
                        /\ promise[c].value = Undefined
                        /\ "restoreClient" \in log

\* C5 (persist/remove never raise): every persistClient / removeClient call resolves,
\* also when postMessage throws; a throwing call is logged and sends nothing; no call
\* changes the listeners, the restore promises or the timers.
PersistRemoveNeverRaise ==
    [][(rt.pc = "start" /\ rt'.pc = "written") =>
         /\ lastCall'.op = (IF rt.op = "persist" THEN "persistClient" ELSE "removeClient")
         /\ lastCall'.outcome = "resolved"
         /\ lastCall'.threw => (lastCall'.op \in log' /\ toHost' = toHost)
         /\ UNCHANGED <<listeners, promise, timer, handled>>]_vars

\* persistClient was called while postMessage throws.
PersistRemoveNeverRaiseWitness ==
    /\ lastCall.op = "persistClient"
    /\ lastCall.threw
    /\ lastCall.outcome = "resolved"

\* C6 (listener cleanup): a call that was settled by a reply or by the timeout has no
\* listener registered, and no later step (in particular no later storage-data
\* message) runs its handler again or changes its result.
ListenerCleanup ==
    /\ [](\A c \in CallIds : Fulfilled(c) => c \notin listeners)
    /\ [][\A c \in CallIds :
            Fulfilled(c) => /\ handled'[c] = handled[c]
                            /\ promise'[c].value = promise[c].value
                            /\ c \notin listeners']_vars

\* The call was settled by the timeout and the host's reply has been delivered
\* afterwards: nothing of the request is left in the channels or in the host.
ListenerCleanupWitness ==
    /\ promise[GateCall].by = "timeout"
    /\ handled[GateCall] = 0
    /\ lastCall.op = "none"
    /\ toHost = <<>> /\ hostPending = <<>> /\ toUI = <<>>

\* C7 (first outcome wins): once a call is settled, its result and the event that
\* produced it never change, whichever of reply and timer comes second, and the
\* awaiting caller is resumed at most once.
FirstOutcomeWins ==
    /\ [][\A c \in CallIds : Fulfilled(c) => promise'[c] = promise[c]]_vars
    /\ [](\A c \in CallIds : resumed[c] <= 1 /\ (resumed[c] = 1 => Settled(c)))

\* The reply won and the timer fired afterwards.
FirstOutcomeWinsWitness ==
    /\ promise[GateCall].by = "reply"
    /\ Truthy(promise[GateCall].value)
    /\ timer[GateCall] = "fired"
    /\ resumed[GateCall] = 1

SetOk == [type |-> "set-storage", ok |-> TRUE]
GetOk == [type |-> "get-storage", ok |-> TRUE]

\* The host read the slot successfully.
ReadOk == \E i \in 1 .. Len(rt.hostOps) : rt.hostOps[i] = GetOk
\* The host wrote the slot successfully before it read it.
WrittenBeforeRead == rt.hostOps # <<>> /\ rt.hostOps[1] = SetOk /\ ReadOk

\* The entries of r carry the identifiers and data values of the entries of s.
DataOf(v) == [i \in 1 .. Len(v.queries) |->
                <<v.queries[i].shape, v.queries[i].queryKey, v.queries[i].data>>]
SameData(r, s) == r.kind = "client" /\ DataOf(r) = DataOf(s)

RTDone(op) == rt.pc = "done" /\ rt.op = op

\* C9 as stated (round trip): persistClient(S), then restoreClient() in a fresh UI
\* instance: whenever the restore yields a result, it carries the data of S.
RoundTripAlways ==
    (RTDone("persist") /\ Fulfilled(GateCall)) => SameData(promise[GateCall].value, rt.snap)

\* C9 amended: the restore yields the data of S when the host wrote S before it read
\* the slot, the read succeeded and the reply settled the call; it yields the slot's
\* previous value (undefined if that was empty) when the read succeeded without the
\* write before it; it yields undefined when the read failed or the timer came first.
RoundTrip ==
    (RTDone("persist") /\ Fulfilled(GateCall)) =>
        IF promise[GateCall].by = "reply" /\ ReadOk
          THEN IF WrittenBeforeRead
                 THEN SameData(promise[GateCall].value, rt.snap)
                 ELSE promise[GateCall].value = OrUndefined(rt.before)
          ELSE promise[GateCall].value = Undefined

RoundTripWitness ==
    /\ RTDone("persist")
    /\ promise[GateCall].by = "reply"
    /\ WrittenBeforeRead
    /\ rt.before # rt.snap
    /\ promise[GateCall].value = rt.snap

\* C10 as stated (deletion): removeClient(), then restoreClient(): whenever the restore
\* yields a result, it is undefined.
DeletionAlways ==
    (RTDone("remove") /\ Fulfilled(GateCall)) => promise[GateCall].value = Undefined

\* C10 amended: the restore yields undefined when the host wrote the null before it
\* read the slot, when the read failed, or when the timer came first; when the read
\* succeeded without the write before it, the restore yields the slot's previous
\* value.
Deletion ==
    (RTDone("remove") /\ Fulfilled(GateCall)) =>
        IF promise[GateCall].by = "reply" /\ ReadOk /\ ~WrittenBeforeRead
          THEN promise[GateCall].value = OrUndefined(rt.before)
          ELSE promise[GateCall].value = Undefined

DeletionWitness ==
    /\ RTDone("remove")
    /\ promise[GateCall].by = "reply"
    /\ WrittenBeforeRead
    /\ Truthy(rt.before)
    /\ promise[GateCall].value = Undefined

(***************************************************************************)
(* Cold start, hydration and rendering (Spec, FairSpec).                   *)
(***************************************************************************)
RestoredState == promise[GateCall].value

\* The step of onMount that follows the await, after a restore that yielded a value.
ResumeStep == gate = "restoring" /\ gate' # "restoring" /\ Fulfilled(GateCall)

\* C11 (cold start): when the reply for the fixed key carries no value (the slot was
\* never written, or holds null), the pending call is resolved with undefined by the
\* very step that delivers the reply, whatever the timer shows, and the timer is not
\* waited for; a call whose request was sent is never rejected.
ColdStart ==
    /\ [][\A c \in CallIds :
            ( /\ toUI # <<>>
              /\ toUI' = Tail(toUI)
              /\ Matches(Head(toUI))
              /\ ~Truthy(Head(toUI).value)
              /\ c \in listeners
              /\ promise[c].state = "pending" )
            => /\ promise'[c] = [state |-> "fulfilled", value |-> Undefined, by |-> "reply"]
               /\ timer'[c] = timer[c]
               /\ c \notin listeners']_vars
    /\ [](\A c \in CallIds : ~sendThrew[c] => promise[c].state # "rejected")

\* The slot was never written and the reply settled the call at once: the timer is
\* still armed and no time has passed.
ColdStartWitness ==
    /\ slot[CACHE_KEY] = Undefined
    /\ promise[GateCall].by = "reply"
    /\ RestoredState = Undefined
    /\ timer[GateCall] = "armed"
    /\ elapsed[GateCall] = 0
    /\ gate = "restoring"

\* C12 (hydration result): when the restore yielded a snapshot, then at the step that
\* mounts the application the cache holds, for every entry that has a queryKey and a
\* state, that entry's data under that queryKey.
HydrationResult ==
    [][(~ready /\ ready' /\ RestoredState.kind = "client") =>
         \A i \in 1 .. Len(RestoredState.queries) :
            RestoredState.queries[i].shape = "ok" =>
               cache'[RestoredState.queries[i].queryKey] = RestoredState.queries[i].data]_vars

\* Just mounted from a snapshot with two well-formed entries.
HydrationResultWitness ==
    /\ ready
    /\ ~dirty
    /\ lastCall.op = "none"
    /\ RestoredState = Client(<<Query("user", "d2", 0), Query("todos", "d1", 0)>>)
    /\ cache = [k \in QueryKeys |-> IF k = "user" THEN "d2" ELSE "d1"]

\* C13 (empty restore): when the restore yielded undefined (null reply or timeout), the
\* continuation of onMount leaves the cache as it was, empty, registers the persister
\* and sets ready.
EmptyRestore ==
    [][(ResumeStep /\ RestoredState = Undefined) =>
         /\ cache' = cache
         /\ cache' = EmptyCache
         /\ registered' = registered + 1
         /\ gate' = "live"
         /\ ready']_vars

\* Mounted with an empty cache after a null reply.
EmptyRestoreWitness ==
    /\ ready
    /\ RestoredState = Undefined
    /\ promise[GateCall].by = "reply"
    /\ timer[GateCall] = "armed"
    /\ cache = EmptyCache
    /\ registered = 1

\* The data the cache has to hold under key k after hydration from the entries qs.
Expected(qs, k) ==
    IF \E i \in 1 .. Len(qs) : qs[i].shape = "ok" /\ qs[i].queryKey = k
      THEN (CHOOSE d \in Data :
              \E i \in 1 .. Len(qs) : qs[i].shape = "ok" /\ qs[i].queryKey = k /\ qs[i].data = d)
      ELSE NoData

\* C14 (malformed entries): for every restored snapshot, whatever malformed entries
\* (null, no queryKey, no state) it mixes with well-formed ones, the continuation of
\* onMount hydrates every well-formed entry, writes nothing else, and reaches Live.
MalformedSkipped ==
    [][(ResumeStep /\ RestoredState.kind = "client") =>
         /\ \A k \in QueryKeys : cache'[k] = Expected(RestoredState.queries, k)
         /\ gate' = "live"
         /\ ready']_vars

\* The application shows its loading spinner: it is mounted and todosQuery has no
\* data (todosQuery.isPending), Convex being configured.
Spinner == ready /\ cache["todos"] = NoData

HasTodos(v) ==
    /\ v.kind = "client"
    /\ \E i \in 1 .. Len(v.queries) : v.queries[i].shape = "ok" /\ v.queries[i].queryKey = "todos"

WriteStep == rt.pc = "start" /\ rt'.pc = "written"
WriteMessage == SetStorage(CACHE_KEY, IF rt.op = "persist" THEN rt.snap ELSE Null)

\* C16 as stated (fire and forget): every persistClient / removeClient call puts
\* exactly one set-storage message with the fixed key and the snapshot (or null) on
\* the outbound channel.
FireAndForgetAlways == [][WriteStep => toHost' = Append(toHost, WriteMessage)]_vars

\* C16 amended: every call whose postMessage does not throw puts exactly that one
\* message on the outbound channel, a call whose postMessage throws puts none; in
\* both cases the call resolves in the same step, without a listener, a timer or an
\* inbound message.
FireAndForget ==
    [][WriteStep =>
         /\ toHost' = IF lastCall'.threw THEN toHost ELSE Append(toHost, WriteMessage)
         /\ lastCall'.outcome = "resolved"
         /\ UNCHANGED <<listeners, timer, promise, toUI>>
         /\ listeners = {}]_vars

\* removeClient has sent its single message.
FireAndForgetWitness ==
    /\ rt.pc = "written"
    /\ lastCall.op = "removeClient"
    /\ ~lastCall.threw
    /\ toHost = <<SetStorage(CACHE_KEY, Null)>>

(***************************************************************************)
(* Storage Responder (SpecHost).                                           *)
(***************************************************************************)
\* A handler call returned in this step; LastReturn is what it did.
HandlerReturned == Len(rt'.returns) = Len(rt.returns) + 1
LastReturn == rt'.returns[Len(rt'.returns)]

StoreContract ==
    [][(HandlerReturned /\ LastReturn.msg.type = "set-storage") =>
         /\ slot' = IF LastReturn.ok
                      THEN [slot EXCEPT ![LastReturn.msg.key] = LastReturn.msg.value]
                      ELSE slot
         /\ toUI' = toUI
         /\ toHost' = toHost
         /\ Len(hostPending') = Len(hostPending) - 1]_vars

\* The write of null failed: the slot keeps its snapshot and nothing was sent.
StoreContractWitness ==
    /\ rt.pc = "host"
    /\ rt.returns = <<[msg |-> SetStorage(CACHE_KEY, Null), ok |-> FALSE, result |-> TRUE]>>
    /\ slot[CACHE_KEY] = V1
    /\ toUI = <<>> /\ toHost = <<>> /\ hostPending = <<>>

\* The set-storage messages for key k in a sequence of messages.
Writes(msgs, k) ==
    {i \in 1 .. Len(msgs) : msgs[i].type = "set-storage" /\ msgs[i].key = k}
\* The handler calls that wrote slot k successfully.
OkWrites(k) ==
    {i \in 1 .. Len(rt.returns) :
        rt.returns[i].msg.type = "set-storage" /\ rt.returns[i].msg.key = k /\ rt.returns[i].ok}
Last(S) == CHOOSE i \in S : \A j \in S : j <= i
\* Every message sent has been served.
AllServed == toHost = <<>> /\ hostPending = <<>> /\ Len(rt.returns) = Len(rt.sent)

\* C19 as stated (last write wins): after all writes have completed, the slot holds
\* the value of the set-storage message that was sent last.
LastSentWins ==
    (rt.pc = "host" /\ AllServed /\ Writes(rt.sent, CACHE_KEY) # {}) =>
        slot[CACHE_KEY] = rt.sent[Last(Writes(rt.sent, CACHE_KEY))].value

\* C19 amended: the slot holds its initial value or the whole value of one of the
\* set-storage messages sent; at every moment it holds the value of the write that
\* completed successfully last (its initial value if none did).
LastWriteWins ==
    rt.pc = "host" =>
        /\ slot[CACHE_KEY] \in
              {rt.before} \cup {rt.sent[i].value : i \in Writes(rt.sent, CACHE_KEY)}
        /\ slot[CACHE_KEY] =
              IF OkWrites(CACHE_KEY) = {} THEN rt.before
              ELSE rt.returns[Last(OkWrites(CACHE_KEY))].msg.value

\* Two writers, both writes completed in the order sent: the slot holds the second.
LastWriteWinsWitness ==
    /\ rt.pc = "host"
    /\ rt.sent = <<SetStorage(CACHE_KEY, V1), SetStorage(CACHE_KEY, V2)>>
    /\ AllServed
    /\ \A i \in 1 .. 2 : rt.returns[i].msg = rt.sent[i] /\ rt.returns[i].ok
    /\ slot[CACHE_KEY] = V2

\* C20 (handler result): the handler resolves to true exactly for get-storage and
\* set-storage messages, also when the storage call failed, and to false for every
\* other message, which it serves without touching storage or sending anything.
HandlerResult ==
    [][HandlerReturned =>
         /\ LastReturn.result = (LastReturn.msg.type \in {"get-storage", "set-storage"})
         /\ ~LastReturn.result => UNCHANGED <<slot, toUI, hostPending>>]_vars

\* A custom message was turned down and a failed read was still reported as handled.
HandlerResultWitness ==
    /\ rt.pc = "host"
    /\ \E i \in 1 .. Len(rt.returns) :
          rt.returns[i].msg = CustomMessage /\ ~rt.returns[i].result
    /\ \E i \in 1 .. Len(rt.returns) :
          rt.returns[i].msg.type = "get-storage" /\ ~rt.returns[i].ok /\ rt.returns[i].result

(***************************************************************************)
(* Startup sequence of the Gate (Spec).                                    *)
(***************************************************************************)
\* A message was posted to the host in this step; Posted is that message.
PostedToHost == Len(toHost') > Len(toHost)
Posted == toHost'[Len(toHost')]

\* C21 (no retry, one direction): the Gate calls restoreClient() once per UI lifetime,
\* never again after a timeout, so that the get-storage request of that call is the
\* only one ever sent; once the Gate is Live, no continuation of a restore runs and
\* no step that takes a message of the host changes the cache, and every message
\* posted is a set-storage message for the fixed key.
NoRetry ==
    /\ [](\A c \in CallIds : c # GateCall => promise[c].state = "none")
    /\ [](gate # "cold" <=> promise[GateCall].state # "none")
    /\ [][\A c \in CallIds : promise[c].state # "none" => promise'[c].state # "none"]_vars
    /\ [][(PostedToHost /\ Posted.type = "get-storage") =>
            /\ gate = "cold"
            /\ promise[GateCall].state = "none"
            /\ Posted = GetStorage(CACHE_KEY)]_vars
    /\ [][gate = "live" =>
            /\ gate' = "live"
            /\ resumed' = resumed
            /\ cache' # cache => (toUI' = toUI /\ promise' = promise /\ dirty')
            /\ PostedToHost => (Posted.type = "set-storage" /\ Posted.key = CACHE_KEY)]_vars

\* The restore timed out, the Gate went Live, the application's data was persisted
\* and written, and the late reply has been delivered in the meantime: the cache
\* holds what the application fetched.
NoRetryWitness ==
    /\ gate = "live"
    /\ promise[GateCall].by = "timeout"
    /\ lastCall.op = "persistClient"
    /\ ~lastCall.threw
    /\ ~dirty
    /\ toHost = <<>> /\ hostPending = <<>> /\ toUI = <<>>
    /\ slot[CACHE_KEY] = dehydrate(cache)

Delivery == toUI # <<>> /\ toUI' = Tail(toUI)

ByReply(v) == [state |-> "fulfilled", value |-> v, by |-> "reply"]

\* The get-storage requests for the fixed key that the Responder has answered.
Answered ==
    {i \in 1 .. Len(rt.returns) : rt.returns[i].msg = GetStorage(CACHE_KEY)}

\* C23 (concurrent restores share a reply): the dispatch of a storage-data message for
\* the fixed key resolves every call that is pending at that moment with the value
\* of that one message and leaves no listener registered, however many of the
\* requests the Responder has answered.
SharedReply ==
    [][(Delivery /\ Matches(Head(toUI))) =>
         /\ \A c \in CallIds :
               promise[c].state = "pending" =>
                   promise'[c] = ByReply(OrUndefined(Head(toUI).value))
         /\ listeners' = {}]_vars

\* Two calls were outstanding, the Responder has answered one request, and both
\* calls hold the snapshot of that one reply.
SharedReplyWitness ==
    /\ rt.pc = "calls"
    /\ promise[1] = ByReply(V1)
    /\ promise[2] = ByReply(V1)
    /\ Cardinality(Answered) = 1
    /\ Len(toHost) + Len(hostPending) = 1
    /\ listeners = {}

\* C24 (non-matching messages are ignored): the dispatch of a message without
\* pluginMessage, of another type or with another key changes no call, no listener
\* and no timer; a pending call is settled only by the dispatch of a storage-data
\* message for the fixed key or by its own timer callback.
ForeignIgnored ==
    /\ [][(Delivery /\ ~(Head(toUI).type = "storage-data" /\ Head(toUI).key = CACHE_KEY)) =>
            UNCHANGED <<listeners, promise, timer, elapsed, handled, resumed>>]_vars
    /\ [][\A c \in CallIds :
            (promise[c].state = "pending" /\ promise'[c].state # "pending") =>
               \/ /\ Delivery
                  /\ Head(toUI).type = "storage-data"
                  /\ Head(toUI).key = CACHE_KEY
                  /\ promise'[c].by = "reply"
               \/ /\ timer[c] = "armed"
                  /\ timer'[c] = "fired"
                  /\ promise'[c].by = "timeout"]_vars

\* A storage-data message for the key of the hook was dispatched while the call was
\* pending: the call still waits, with its listener and its running timer.
ForeignIgnoredWitness ==
    /\ rt.pc = "calls"
    /\ rt.sent = <<StorageData(TODOS_CACHE, V1)>>
    /\ toUI = <<>>
    /\ promise[1].state = "pending"
    /\ 1 \in listeners
    /\ timer[1] = "armed"
    /\ elapsed[1] > 0

\* C25 (listener before request): the step that posts the get-storage message of a
\* call ends with the call's listener registered; a pending call is always
\* registered; so the dispatch of a reply for the fixed key, however early, settles
\* every pending call as a reply.
ListenerBeforeRequest ==
    /\ [][\A c \in CallIds :
            (PostedToHost /\ Posted.type = "get-storage" /\ promise'[c] # promise[c]) =>
               (c \notin listeners /\ c \in listeners')]_vars
    /\ [](\A c \in CallIds : promise[c].state = "pending" => c \in listeners)
    /\ [][\A c \in CallIds :
            (Delivery /\ Matches(Head(toUI)) /\ promise[c].state = "pending") =>
               (handled'[c] = 1 /\ promise'[c].by = "reply")]_vars

\* The reply was dispatched before any time had passed on the call's timer.
ListenerBeforeRequestWitness ==
    /\ rt.pc = "calls"
    /\ promise[1] = ByReply(V1)
    /\ elapsed[1] = 0
    /\ timer[1] = "armed"
    /\ resumed[1] = 0
    /\ promise[2].state = "none"

\* The calls that posted their get-storage request.
Requested == {c \in CallIds : promise[c].state # "none" /\ ~sendThrew[c]}
\* The request of call c has not been received by the Responder yet: the outbound
\* channel keeps the order of the calls.
Unreceived(c) ==
    /\ c \in Requested
    /\ Cardinality({d \in Requested : d >= c}) <= Len(toHost)

\* C26 as stated (no stale cross-talk): a call resolves only with a value the
\* Responder read in answer to that call's own request; in particular a call whose
\* request the Responder has not received is not resolved by a reply.
NoCrossTalk ==
    rt.pc = "calls" => \A c \in CallIds : promise[c].by = "reply" => ~Unreceived(c)

\* C26 amended: a call is resolved as a reply only by the dispatch of a storage-data
\* message for the fixed key while it is pending, with the value of that message
\* (undefined for an empty one); that message carries what the Responder read
\* from the slot, or null for a failed read, in answer to some request for the
\* fixed key, which need not be the request of that call.
CrossTalk ==
    /\ [][\A c \in CallIds :
            (promise[c].by # "reply" /\ promise'[c].by = "reply") =>
               /\ Delivery /\ Matches(Head(toUI))
               /\ promise[c].state = "pending"
               /\ promise'[c].value = OrUndefined(Head(toUI).value)]_vars
    /\ [](rt.pc = "calls" =>
            /\ \A i \in 1 .. Len(toUI) : Matches(toUI[i]) => toUI[i].value \in {rt.before, Null}
            /\ \A c \in CallIds : promise[c].by = "reply" => Answered # {})

\* The first call timed out; the late reply to its request resolved the second call,
\* whose own request the Responder has not received.
CrossTalkWitness ==
    /\ rt.pc = "calls"
    /\ promise[1].by = "timeout"
    /\ promise[2] = ByReply(V1)
    /\ Unreceived(2)
    /\ Cardinality(Answered) = 1

\* C27 (no listener outlives its call): in every fair execution every listener that
\* restoreClient() registered is removed again, also the listener of a call whose
\* postMessage threw.
ListenerRemoved == \A c \in CallIds : (c \in listeners) ~> (c \notin listeners)

(***************************************************************************)
(* Hydration as a function of the snapshot (SpecHydrate).                  *)
(***************************************************************************)
\* C28 (hydration ignores bookkeeping): two snapshots whose entries agree in shape,
\* identifier and data, whatever their other fields, give the same cache and end
\* the loop the same way.
MetadataIgnored ==
    (rt.pc = "hydrated" /\ SameData(rt.first, rt.second)) => rt.results[1] = rt.results[2]

\* Two snapshots that differ only in the bookkeeping of their two entries were
\* hydrated to the same two data values.
MetadataIgnoredWitness ==
    /\ rt.pc = "hydrated"
    /\ rt.first = Client(<<Query("todos", "d1", 0), Query("user", "d2", 1)>>)
    /\ rt.second = Client(<<Query("todos", "d1", 1), Query("user", "d2", 0)>>)
    /\ rt.results[1] = rt.results[2]
    /\ rt.results[1].cache["todos"] = "d1"
    /\ rt.results[1].cache["user"] = "d2"

\* The identifiers of the entries qs: no entry is null and no two entries have the
\* same queryKey.
DistinctIds(qs) ==
    /\ \A i \in 1 .. Len(qs) : qs[i].shape # "null"
    /\ \A i, j \in 1 .. Len(qs) :
          (i # j /\ qs[i].shape # "noKey" /\ qs[j].shape # "noKey") =>
              qs[i].queryKey # qs[j].queryKey
IsPermutation(qs, rs) ==
    /\ Len(qs) = Len(rs)
    /\ \E p \in Permutations(1 .. Len(qs)) : rs = Permute(qs, p)

\* C29 (hydration is order independent): a snapshot whose entries have pairwise
\* distinct identifiers gives the same cache in whatever order its entries are
\* hydrated.
OrderIndependent ==
    ( /\ rt.pc = "hydrated"
      /\ DistinctIds(rt.first.queries)
      /\ IsPermutation(rt.first.queries, rt.second.queries) )
    => rt.results[1] = rt.results[2]

\* The two entries were hydrated in both orders.
OrderIndependentWitness ==
    /\ rt.pc = "hydrated"
    /\ rt.first = Client(<<Query("todos", "d1", 0), Query("settings", "d2", 0)>>)
    /\ rt.second = Client(<<Query("settings", "d2", 0), Query("todos", "d1", 0)>>)
    /\ rt.results[1] = rt.results[2]
    /\ rt.results[2].cache = [k \in HydrateKeys |->
                                 IF k = "todos" THEN "d1" ELSE IF k = "settings" THEN "d2"
                                 ELSE NoData]

(***************************************************************************)
(* useClientCache (SpecHook).                                              *)
(***************************************************************************)
\* The dispatch of a storage-data message for the key of the hook to its listener.
HookReply ==
    /\ Delivery
    /\ hook.listening
    /\ Head(toUI).type = "storage-data"
    /\ Head(toUI).key = TODOS_CACHE
\* The fallback timer fires after its delay.
HookFallback ==
    /\ hook.timer = "armed"
    /\ hook'.timer = "fired"
    /\ hook.elapsed >= FallbackMs(hook.variant)

\* C30 (render gate): shouldRender is false when the hook has been created and stays
\* false until a storage-data message for cacheKey is dispatched to the hook or the
\* fallback timer fires; once true it stays true; shouldShowLoading is true only
\* while shouldRender is true.
RenderGate ==
    /\ [](hook.phase \in {"none", "created"} => ~shouldRender)
    /\ [][(~shouldRender /\ shouldRender') => (HookReply \/ HookFallback)]_vars
    /\ [][shouldRender => shouldRender']_vars
    /\ [](shouldShowLoading => shouldRender)

\* The getter-based hook renders after the reply with the stored data; the data
\* source is still loading and the timer has fired since.
RenderGateWitness ==
    /\ hook.variant = "getter"
    /\ hook.phase = "mounted"
    /\ shouldRender
    /\ ~shouldShowLoading
    /\ hook.isLoading
    /\ Nullish(hook.liveData)
    /\ hook.cachedData = Item("d1")
    /\ hook.timer = "fired"

\* The hook has been destroyed: its listener is removed and its timer is not armed.
Unmounted ==
    hook.phase = "destroyed" => (~hook.listening /\ hook.timer # "armed")

\* C31 as stated (fallback): when the fallback timer (200 ms, 500 ms in the
\* getter-based variant) fires and no storage-data message for cacheKey has been
\* handled, shouldRender becomes true and cachedData is still null; once the
\* component is destroyed the timer and the listener change nothing any more.
FallbackWithNull ==
    /\ [][(HookFallback /\ ~hook.cacheChecked)
            => (shouldRender' /\ hook'.cachedData = Null)]_vars
    /\ []Unmounted
    /\ [][hook.phase = "destroyed" => hook' = hook]_vars

\* C31 (fallback): when the fallback timer fires and no storage-data message for
\* cacheKey has been handled, shouldRender becomes true and cachedData is what the
\* $effect left there, null or the last live value that is neither null nor
\* undefined; once the component is destroyed the timer is cancelled and the
\* listener removed, and neither changes the hook any more.
FallbackRule ==
    /\ [][(HookFallback /\ ~hook.cacheChecked)
            => (shouldRender' /\ hook'.cachedData = hook.lastLive)]_vars
    /\ []Unmounted
    /\ [][hook.phase = "destroyed" => hook' = hook]_vars

\* The timer of the .svelte.ts hook has fired while the get-storage request is still
\* on its way to the host, and the hook renders the live data it was called with.
FallbackRuleWitness ==
    /\ hook.variant = "svelte"
    /\ hook.phase = "mounted"
    /\ hook.timer = "fired"
    /\ hook.elapsed = HOOK_TIMEOUT_MS
    /\ shouldRender
    /\ toHost # <<>>
    /\ Head(toHost).type = "get-storage"
    /\ hook.cachedData = Item("d2")

\* C32 (no timeout path in useClientCache.ts): in this variant no timer is ever
\* started, cacheChecked and shouldRender become true only in the dispatch of a
\* storage-data message for cacheKey to the listener of the hook, and while no such
\* message has been handled shouldRender is false.
NoTimeoutPath ==
    /\ [](hook.variant = "plain" => hook.timer = "none")
    /\ [][(hook.variant = "plain" /\ ~hook.cacheChecked /\ hook'.cacheChecked)
            => HookReply]_vars
    /\ [][(hook.variant = "plain" /\ ~shouldRender /\ shouldRender') => HookReply]_vars
    /\ []((hook.variant = "plain" /\ ~hook.cacheChecked) => ~shouldRender)

\* The hook of useClientCache.ts has handled the reply of the host with the stored
\* data.
NoTimeoutPathWitness ==
    /\ hook.variant = "plain"
    /\ hook.phase = "mounted"
    /\ hook.cacheChecked
    /\ hook.cachedData = Item("d1")
    /\ Nullish(hook.liveData)
    /\ toHost = <<>>

\* C33 (display rule): in every state of a hook of useClientCache.svelte.ts or of the
\* getter-based variant, the displayData the component reads is the live data when
\* that is neither null nor undefined and cachedData otherwise, and shouldShowLoading
\* is true exactly when the cache has been checked, displayData is null, undefined
\* or another falsy value, and isLoading is true.
DisplayRule ==
    hook.variant \in {"svelte", "getter"} =>
      /\ hook.liveData.kind \notin {"null", "undefined"} => displayData = hook.liveData
      /\ hook.liveData.kind \in {"null", "undefined"} => displayData = hook.cachedData
      /\ shouldShowLoading <=>
            /\ hook.cacheChecked
            /\ displayData.kind \in {"null", "undefined", "zero"}
            /\ hook.isLoading

\* The live data is shown although the reply of the host has put other, stored data
\* into cachedData; the data source is still loading.
DisplayRuleWitness ==
    /\ hook.variant = "svelte"
    /\ hook.phase = "mounted"
    /\ hook.cacheChecked
    /\ hook.isLoading
    /\ hook.liveData = Item("d2")
    /\ hook.cachedData = Item("d1")
    /\ displayData = Item("d2")
    /\ ~shouldShowLoading

\* The set-storage messages of a queue of messages to the host, in order.
SetStorageIn(q) == SelectSeq(q, LAMBDA m : m.type = "set-storage")
\* A step in which the $effect of the hook runs: the mount of the component (first
\* run) or a change of the live data the hook reads.
EffectRuns ==
    \/ hook.phase = "created" /\ hook'.phase = "mounted"
    \/ hook.phase = "mounted" /\ hook'.liveData # hook.liveData

\* C34 (save rule): a run of the $effect for a live value that is neither null nor
\* undefined sets cachedData to that value and sends exactly one set-storage message
\* with cacheKey and that value; a run for null or undefined sends no set-storage
\* message and leaves cachedData alone; no other step sends one, so no set-storage
\* message carries null or undefined and a stored value is never replaced by one.
SaveRule ==
    /\ [][(EffectRuns /\ ~Nullish(hook'.liveData))
            => /\ hook'.cachedData = hook'.liveData
               /\ SetStorageIn(toHost')
                    = Append(SetStorageIn(toHost), SetStorage(TODOS_CACHE, hook'.liveData))]_vars
    /\ [][(EffectRuns /\ Nullish(hook'.liveData))
            => /\ hook'.cachedData = hook.cachedData
               /\ SetStorageIn(toHost') = SetStorageIn(toHost)]_vars
    /\ [][Len(SetStorageIn(toHost')) > Len(SetStorageIn(toHost))
            => (EffectRuns /\ ~Nullish(hook'.liveData))]_vars
    /\ [](\A i \in 1 .. Len(toHost) :
             toHost[i].type = "set-storage"
               => (toHost[i].key = TODOS_CACHE /\ ~Nullish(toHost[i].value)))
    /\ [][~Nullish(slot[TODOS_CACHE]) => ~Nullish(slot'[TODOS_CACHE])]_vars

\* The live data of the getter-based hook has changed to d2 after the first requests
\* were taken by the host: cachedData is d2 and one set-storage message with d2 is on
\* its way.
SaveRuleWitness ==
    /\ hook.variant = "getter"
    /\ hook.phase = "mounted"
    /\ hook.changes = 1
    /\ hook.liveData = Item("d2")
    /\ hook.cachedData = Item("d2")
    /\ toHost = <<SetStorage(TODOS_CACHE, Item("d2"))>>
    /\ slot[TODOS_CACHE] = Item("d1")

\* C35 (no regression to older data): once the $effect has seen a live value that
\* is neither null nor undefined, cachedData is the last such value in every later
\* state, also after a storage-data reply that is handled later.
NoRegress ==
    hook.lastLive # Null => hook.cachedData = hook.lastLive

(***************************************************************************)
(* The todo application (SpecApp).                                         *)
(***************************************************************************)
\* Call c invalidates in this step.
Invalidates(c) == app'.calls[c].invalidated # app.calls[c].invalidated

\* C36 (invalidate after mutation): a call of addTodo, toggleTodo or deleteTodo
\* invalidates only the query ['todos'], at most once, and only in the step that
\* follows the successful completion of its own mutation; a call that has ended
\* after a successful mutation has invalidated exactly once; a call whose mutation
\* failed has not invalidated; addTodo with a text that is empty or white space
\* only sends no mutation and does not invalidate.
InvalidateAfterMutation ==
    /\ [][\A c \in TodoCalls :
            Invalidates(c) => /\ app.calls[c].mutation = "resolved"
                              /\ app.calls[c].invalidated = <<>>
                              /\ app'.calls[c].invalidated = <<"todos">>]_vars
    /\ [](\A c \in TodoCalls :
            /\ (app.calls[c].state = "done" /\ app.calls[c].mutation = "resolved")
                 => app.calls[c].invalidated = <<"todos">>
            /\ app.calls[c].mutation \in {"none", "pending", "rejected"}
                 => app.calls[c].invalidated = <<>>
            /\ app.calls[c].state \in {"done", "threw"}
                 => app.calls[c].mutation \in {"none", "resolved", "rejected"})
    /\ [][\A c \in TodoCalls :
            (app.calls[c].fn = "none" /\ app'.calls[c].fn = "addTodo"
               /\ \A i \in 1 .. Len(app.todoText) : app.todoText[i] = " ")
              => (app'.calls[c].mutation = "none" /\ app'.calls[c].state = "done")]_vars
    /\ [](\A c \in TodoCalls :
            (app.calls[c].fn \in {"toggleTodo", "deleteTodo"} \/ app.calls[c].arg # <<>>)
              => app.calls[c].mutation # "none")

\* Two calls have ended: deleteTodo after its mutation was applied, with one
\* invalidation of ['todos'], and addTodo after its mutation failed, with none and
\* with the text still in the input field.
InvalidateAfterMutationWitness ==
    /\ app.calls[1].fn = "deleteTodo"
    /\ app.calls[1].state = "done"
    /\ app.calls[1].mutation = "resolved"
    /\ app.calls[1].invalidated = <<"todos">>
    /\ app.calls[2].fn = "addTodo"
    /\ app.calls[2].state = "threw"
    /\ app.calls[2].mutation = "rejected"
    /\ app.calls[2].invalidated = <<>>
    /\ app.todoText = <<"a", " ">>

====
